---- MODULE Spec2Model ----
(***************************************************************************)
(* Model of backend/app.py of DocuChat-AI: the module-level globals        *)
(* (vector_store, qa_chain, document_metadata, all_documents,              *)
(* active_session_id), the two JSON files (session.json, history.json),    *)
(* the uploads folder, the clock, and the functions and Flask handlers     *)
(* that change them.                                                       *)
(*                                                                         *)
(* Every handler is an operator from the state before the request and the  *)
(* request's inputs to the state after it and the response; the actions    *)
(* apply the handlers.  fail / *_ok inputs say which external call raises. *)
(*                                                                         *)
(* A Chroma handle is an object: vector_store and the retriever inside     *)
(* qa_chain hold references to it, so handles live in a small heap and the *)
(* two globals hold handle ids.  What a handle "contains" is the list of   *)
(* documents this program handed to it (from_documents / add_documents).   *)
(*                                                                         *)
(* Spec, SessionSpec and AppSpec take the requests one after the other;    *)
(* RaceSpec lets the requests of the Session Store overlap between their   *)
(* load_chat_sessions and their save_chat_sessions.                        *)
(***************************************************************************)
EXTENDS Integers, Sequences, FiniteSets, Bags, TLC

\* ---- bounds ----
MaxFiles == 2
MaxChunks == 3
MaxSessions == 2
MaxMessages == 2
\* uuids drawn in one run, for files, sessions and messages together
MaxCreated == 2
\* latest clock reading
MaxClock == 1
\* requests the threaded server handles at the same time
MaxThreads == 2
\* Session Store requests that overlap with others in one run
MaxRequests == 3

\* ---- values ----
None == 0
FileIds == 1..MaxFiles
SessionIds == 1..MaxSessions
Handles == {1, 2}
Failures == {"none", "index", "qa"}
NoCollection == <<"free", None>>
FreeHandle == [collection |-> NoCollection, docs |-> <<>>]

\* the uploaded documents: how many chunks chunk_documents cuts the file
\* stored under file_id into (the first has MaxChunks, the next one fewer, ...)
NumChunks(file_id) == MaxChunks - ((file_id - 1) % MaxChunks)

VARIABLES
    vector_store,        \* None or the id of the Chroma handle
    qa_chain,            \* None or the id of the handle its retriever reads
    heap,                \* handle id -> [collection, docs]
    document_metadata,   \* insertion-ordered dict: sequence of [file_id, chunks]
    all_documents,       \* sequence of chunks [file_id, i]
    active_session_id,   \* None or a session id
    uploads,             \* file ids that have a file in UPLOAD_FOLDER
    session_file,        \* session.json
    chat_history,        \* history.json: [sessions, active_session]
    next_file,           \* number of uuids drawn for files
    next_session,        \* number of uuids drawn for sessions
    next_message,        \* number of uuids drawn for messages
    clock,               \* the latest value datetime.now() returned
    next_request,        \* number of requests that were let overlap
    inflight             \* bag of the requests between their load_chat_sessions
                         \* and their save_chat_sessions, each with the copy
                         \* of history.json it loaded

vars == <<vector_store, qa_chain, heap, document_metadata, all_documents,
          active_session_id, uploads, session_file, chat_history,
          next_file, next_session, next_message, clock, next_request, inflight>>

\* the state as one record, the argument and result of the handlers
State ==
    [vector_store |-> vector_store, qa_chain |-> qa_chain, heap |-> heap,
     document_metadata |-> document_metadata, all_documents |-> all_documents,
     active_session_id |-> active_session_id, uploads |-> uploads,
     session_file |-> session_file, chat_history |-> chat_history,
     next_file |-> next_file, next_session |-> next_session,
     next_message |-> next_message, clock |-> clock]

\* ---- helpers ----
\* chunk_documents: the chunks of one file, tagged with its file_id
ChunksOf(f, n) == [i \in 1..n |-> [file_id |-> f, i |-> i]]

\* variant of the filter that keeps the chunks of file_id
RemainingDocs_inverted(docs, file_id) == SelectSeq(docs, LAMBDA d : d.file_id = file_id)

\* line 636: the chunks that do not belong to file_id, in order
RemainingDocs(docs, file_id) == SelectSeq(docs, LAMBDA d : d.file_id # file_id)

\* lines 230-246: the chunks of every registered document whose file is
\* still in the uploads folder, in registry order
RECURSIVE ReloadChunks(_, _)
ReloadChunks(md, files) ==
    IF md = <<>> THEN <<>>
    ELSE (IF Head(md).file_id \in files
          THEN ChunksOf(Head(md).file_id, Head(md).chunks) ELSE <<>>)
         \o ReloadChunks(Tail(md), files)

\* del document_metadata[file_id], line 628
DelKey(md, file_id) == SelectSeq(md, LAMBDA r : r.file_id # file_id)

Keys(md) == {md[i].file_id : i \in 1..Len(md)}

FileIdsIn(docs) == {docs[i].file_id : i \in 1..Len(docs)}

\* collection name chosen at lines 326-328
CollectionName(default, session_id) ==
    IF session_id # None THEN <<"session", session_id>> ELSE <<default, None>>

\* a handle id not referenced by the QA chain; the handle vector_store held
\* is dropped by the assignment that stores the new one
NewHandle(qa) == CHOOSE h \in Handles : h # qa

\* handle ids are names of objects, so a state is kept under one naming:
\* the handle vector_store refers to (else the one qa_chain refers to) is 1,
\* and handles no global refers to any more are forgotten
Swap(h) == IF h = None THEN None ELSE 3 - h

Canon(s) ==
    LET live == [h \in Handles |->
                    IF h = s.vector_store \/ h = s.qa_chain THEN s.heap[h] ELSE FreeHandle]
    IN IF s.vector_store = 2 \/ (s.vector_store = None /\ s.qa_chain = 2)
       THEN [s EXCEPT !.vector_store = Swap(@), !.qa_chain = Swap(@),
                      !.heap = [h \in Handles |-> live[Swap(h)]]]
       ELSE [s EXCEPT !.heap = live]

\* ---- strings ----
\* a string is the sequence of its characters; the questions and names the
\* requests carry are Text(n), bare or with blanks around them
Text(n) == [i \in 1..n |-> IF i % 2 = 1 THEN "a" ELSE "b"]

Padded(str) == <<" ">> \o str \o <<" ", " ">>

\* str.strip(), lines 98 and 738
RECURSIVE LStrip(_)
LStrip(str) == IF str # <<>> /\ Head(str) = " " THEN LStrip(Tail(str)) ELSE str

RECURSIVE RStrip(_)
RStrip(str) ==
    IF str # <<>> /\ str[Len(str)] = " " THEN RStrip(SubSeq(str, 1, Len(str) - 1)) ELSE str

Strip(str) == RStrip(LStrip(str))

\* the literals of lines 99, 100 and 739
ChatNameLimit == 50
ChatNameKept == 47
NameLimit == 100

Ellipsis == <<".", ".", ".">>

\* variant of generate_chat_name that does not strip the question
GenerateChatName_verbatim(question) ==
    IF Len(question) > ChatNameLimit
    THEN SubSeq(question, 1, ChatNameKept) \o Ellipsis
    ELSE question

\* generate_chat_name, lines 95-101
GenerateChatName(question) ==
    LET name == Strip(question)
    IN IF Len(name) > ChatNameLimit THEN SubSeq(name, 1, ChatNameKept) \o Ellipsis ELSE name

\* the name create_new_session gives without a first question, line 115
DefaultName(n) == <<"N", "e", "w", " ", "C", "h", "a", "t", " ", ToString(n)>>

\* ---- time ----
\* a time is a number of clock ticks; datetime.isoformat() writes the whole
\* seconds and, only when it is not zero, the fraction behind them
TicksPerSecond == 2
Times == 0..MaxClock

IsoFormat(t) ==
    IF t % TicksPerSecond = 0
    THEN <<t \div TicksPerSecond>>
    ELSE <<t \div TicksPerSecond, t % TicksPerSecond>>

\* a < b on strings, the order sort() uses on the updated_at keys
RECURSIVE StrLess(_, _)
StrLess(a, b) ==
    IF a = <<>> THEN b # <<>>
    ELSE IF b = <<>> THEN FALSE
    ELSE IF Head(a) = Head(b) THEN StrLess(Tail(a), Tail(b))
    ELSE Head(a) < Head(b)

\* list(sessions.values()), line 669: dicts keep insertion order, and the
\* session ids are issued in increasing order
RECURSIVE ValuesOf(_, _)
ValuesOf(sessions, ids) ==
    IF ids = {} THEN <<>>
    ELSE LET m == CHOOSE i \in ids : \A j \in ids : i <= j
         IN <<sessions[m]>> \o ValuesOf(sessions, ids \ {m})

\* variant of the sort without reverse=True: oldest first
RECURSIVE InsertDesc_asc(_, _)
InsertDesc_asc(x, sorted) ==
    IF sorted = <<>> THEN <<x>>
    ELSE IF StrLess(x.updated_at, Head(sorted).updated_at) THEN <<x>> \o sorted
    ELSE <<Head(sorted)>> \o InsertDesc_asc(x, Tail(sorted))

\* sort(key=updated_at, reverse=True), line 670: stable, so x goes behind
\* every element whose key is not less than its own
RECURSIVE InsertDesc(_, _)
InsertDesc(x, sorted) ==
    IF sorted = <<>> THEN <<x>>
    ELSE IF StrLess(Head(sorted).updated_at, x.updated_at) THEN <<x>> \o sorted
    ELSE <<Head(sorted)>> \o InsertDesc(x, Tail(sorted))

RECURSIVE SortByUpdatedDesc(_)
SortByUpdatedDesc(list) ==
    IF list = <<>> THEN <<>>
    ELSE InsertDesc(list[Len(list)], SortByUpdatedDesc(SubSeq(list, 1, Len(list) - 1)))

\* save_session_state, lines 184-195
SavedSessionState(md) == [exists |-> TRUE, document_metadata |-> md]

\* variant of create_vector_store that extends whenever a handle is held,
\* whatever session the slot is bound to
CreateVectorStore_nosession(s, chunks, default, add_to_existing, session_id, index_ok) ==
    IF add_to_existing /\ s.vector_store # None
    THEN LET s1 == [s EXCEPT !.all_documents = @ \o chunks]
         IN IF index_ok
            THEN [s |-> [s1 EXCEPT !.heap[s.vector_store].docs = @ \o chunks],
                  raised |-> FALSE, branch |-> "extend"]
            ELSE [s |-> s1, raised |-> TRUE, branch |-> "extend"]
    ELSE LET s1 == [s EXCEPT !.all_documents = chunks, !.active_session_id = session_id]
             h == NewHandle(s.qa_chain)
         IN IF index_ok
            THEN [s |-> [s1 EXCEPT !.vector_store = h,
                                   !.heap[h] = [collection |-> CollectionName(default, session_id),
                                                docs |-> chunks]],
                  raised |-> FALSE, branch |-> "create"]
            ELSE [s |-> s1, raised |-> TRUE, branch |-> "create"]

\* variant of create_vector_store whose extend branch puts the new chunks
\* in front of the list
CreateVectorStore_prepend(s, chunks, default, add_to_existing, session_id, index_ok) ==
    IF add_to_existing /\ s.vector_store # None /\ s.active_session_id = session_id
    THEN LET s1 == [s EXCEPT !.all_documents = chunks \o @]
         IN IF index_ok
            THEN [s |-> [s1 EXCEPT !.heap[s.vector_store].docs = chunks \o @],
                  raised |-> FALSE, branch |-> "extend"]
            ELSE [s |-> s1, raised |-> TRUE, branch |-> "extend"]
    ELSE LET s1 == [s EXCEPT !.all_documents = chunks, !.active_session_id = session_id]
             h == NewHandle(s.qa_chain)
         IN IF index_ok
            THEN [s |-> [s1 EXCEPT !.vector_store = h,
                                   !.heap[h] = [collection |-> CollectionName(default, session_id),
                                                docs |-> chunks]],
                  raised |-> FALSE, branch |-> "create"]
            ELSE [s |-> s1, raised |-> TRUE, branch |-> "create"]

\* create_vector_store, lines 311-350.  index_ok = FALSE: the embedding or
\* index call (add_documents / Chroma.from_documents) raises.
CreateVectorStore(s, chunks, default, add_to_existing, session_id, index_ok) ==
    IF add_to_existing /\ s.vector_store # None /\ s.active_session_id = session_id
    THEN \* lines 332-333: the list is extended before the index call
         LET s1 == [s EXCEPT !.all_documents = @ \o chunks]
         IN IF index_ok
            THEN [s |-> [s1 EXCEPT !.heap[s.vector_store].docs = @ \o chunks],
                  raised |-> FALSE, branch |-> "extend"]
            ELSE [s |-> s1, raised |-> TRUE, branch |-> "extend"]
    ELSE \* lines 337-344: list and binding are assigned before the index call
         LET s1 == [s EXCEPT !.all_documents = chunks, !.active_session_id = session_id]
             h == NewHandle(s.qa_chain)
         IN IF index_ok
            THEN [s |-> [s1 EXCEPT !.vector_store = h,
                                   !.heap[h] = [collection |-> CollectionName(default, session_id),
                                                docs |-> chunks]],
                  raised |-> FALSE, branch |-> "create"]
            ELSE [s |-> s1, raised |-> TRUE, branch |-> "create"]

\* initialize_qa_chain, lines 391-442.  qa_ok = FALSE: building the chain raises.
InitializeQaChain(s, qa_ok) ==
    IF s.vector_store = None \/ ~qa_ok
    THEN [s |-> s, raised |-> TRUE]
    ELSE [s |-> [s EXCEPT !.qa_chain = s.vector_store], raised |-> FALSE]

\* variant of load_session_vector_store without the check of lines 361-363
LoadSessionVectorStore_nohit(s, session_id, chroma_ok, qa_ok) ==
    IF ~chroma_ok
    THEN [s |-> s, result |-> FALSE, path |-> "raised"]
    ELSE LET h == NewHandle(s.qa_chain)
             s1 == [s EXCEPT !.vector_store = h,
                             !.heap[h] = [collection |-> CollectionName("docuchat", session_id),
                                          docs |-> <<>>],
                             !.active_session_id = session_id]
             q == InitializeQaChain(s1, qa_ok)
         IN IF q.raised
            THEN [s |-> s1, result |-> FALSE, path |-> "raised"]
            ELSE [s |-> q.s, result |-> TRUE, path |-> "loaded"]

\* load_session_vector_store, lines 352-389.  No call site of
\* create_vector_store passes a session_id, so the collection
\* session_<id> opened at line 374 holds nothing this program stored.
LoadSessionVectorStore(s, session_id, chroma_ok, qa_ok) ==
    IF s.active_session_id = session_id /\ s.vector_store # None
    THEN [s |-> s, result |-> TRUE, path |-> "hit"]
    ELSE IF ~chroma_ok
    THEN [s |-> s, result |-> FALSE, path |-> "raised"]
    ELSE LET h == NewHandle(s.qa_chain)
             s1 == [s EXCEPT !.vector_store = h,
                             !.heap[h] = [collection |-> CollectionName("docuchat", session_id),
                                          docs |-> <<>>],
                             !.active_session_id = session_id]
             q == InitializeQaChain(s1, qa_ok)
         IN IF q.raised
            THEN [s |-> s1, result |-> FALSE, path |-> "raised"]
            ELSE [s |-> q.s, result |-> TRUE, path |-> "loaded"]

\* POST /upload, lines 452-527, for a valid file
UploadDocument(s, add_to_existing, fail) ==
    LET file_id == s.next_file + 1
        n == NumChunks(file_id)
        chunks == ChunksOf(file_id, n)
        s0 == [s EXCEPT !.next_file = file_id, !.uploads = @ \cup {file_id}]
        c == CreateVectorStore(s0, chunks, "docuchat", add_to_existing, None, fail # "index")
        q == InitializeQaChain(c.s, fail # "qa")
        md == Append(s.document_metadata, [file_id |-> file_id, chunks |-> n])
        out == [file_id |-> file_id, chunks |-> chunks, branch |-> c.branch]
    IN IF c.raised
       THEN out @@ [s |-> Canon(c.s), status |-> 500]
       ELSE IF q.raised
       THEN out @@ [s |-> Canon(q.s), status |-> 500]
       ELSE out @@ [s |-> Canon([q.s EXCEPT !.document_metadata = md,
                                            !.session_file = SavedSessionState(md)]),
                    status |-> 200]

\* POST /chat, lines 553-603, for a request that carries a question
Chat(s, llm_ok) ==
    IF s.qa_chain = None
    THEN [s |-> s, status |-> 400, served |-> NoCollection]
    ELSE IF ~llm_ok
    THEN [s |-> s, status |-> 500, served |-> NoCollection]
    ELSE [s |-> s, status |-> 200, served |-> s.heap[s.qa_chain].collection]

\* DELETE /documents/<file_id>, lines 612-661
RemoveDocument(s, file_id, fail) ==
    LET md == DelKey(s.document_metadata, file_id)
        remaining_docs == RemainingDocs(s.all_documents, file_id)
        s0 == [s EXCEPT !.document_metadata = md, !.uploads = @ \ {file_id}]
        s1 == [s0 EXCEPT !.all_documents = remaining_docs]
        c == CreateVectorStore(s1, remaining_docs, "docuchat_multi", FALSE, None,
                               fail # "index")
        q == InitializeQaChain(c.s, fail # "qa")
    IN IF file_id \notin Keys(s.document_metadata)
       THEN [s |-> s, status |-> 404]
       ELSE IF remaining_docs # <<>>
       THEN IF c.raised THEN [s |-> Canon(c.s), status |-> 500]
            ELSE IF q.raised THEN [s |-> Canon(q.s), status |-> 500]
            ELSE [s |-> Canon([q.s EXCEPT !.session_file = SavedSessionState(md)]),
                  status |-> 200]
       ELSE [s |-> Canon([s0 EXCEPT !.vector_store = None, !.qa_chain = None,
                                    !.all_documents = <<>>,
                                    !.session_file = SavedSessionState(md)]),
             status |-> 200]

\* variant of clear_database that clears the chat history whatever the flag
ClearDatabase_always(s, clear_history) ==
    [s |-> Canon([s EXCEPT !.vector_store = None, !.qa_chain = None,
                           !.document_metadata = <<>>, !.all_documents = <<>>,
                           !.uploads = {}, !.session_file = SavedSessionState(<<>>),
                           !.chat_history = [sessions |-> <<>>, active_session |-> None]]),
     status |-> 200]

\* POST /clear, lines 784-827
ClearDatabase(s, clear_history) ==
    LET s1 == [s EXCEPT !.vector_store = None, !.qa_chain = None,
                        !.document_metadata = <<>>, !.all_documents = <<>>,
                        !.uploads = {}, !.session_file = SavedSessionState(<<>>)]
    IN [s |-> Canon(IF clear_history
                    THEN [s1 EXCEPT !.chat_history =
                                        [sessions |-> <<>>, active_session |-> None]]
                    ELSE s1),
        status |-> 200]

\* restore_session, lines 208-259
RestoreSession(s, fail) ==
    LET md == s.session_file.document_metadata
        s0 == [s EXCEPT !.document_metadata = md]
        all_chunks == ReloadChunks(md, s.uploads)
        c == CreateVectorStore(s0, all_chunks, "docuchat_multi", FALSE, None, fail # "index")
        q == InitializeQaChain(c.s, fail # "qa")
    IN IF ~s.session_file.exists THEN [s |-> s, result |-> FALSE]
       ELSE IF md = <<>> \/ all_chunks = <<>> THEN [s |-> s0, result |-> FALSE]
       ELSE IF c.raised THEN [s |-> Canon(c.s), result |-> FALSE]
       ELSE IF q.raised THEN [s |-> Canon(q.s), result |-> FALSE]
       ELSE [s |-> Canon(q.s), result |-> TRUE]

\* POST /restore, lines 829-848
RestorePreviousSession(s, fail) ==
    LET r == RestoreSession(s, fail)
    IN [s |-> r.s, status |-> IF r.result THEN 200 ELSE 404]

\* variant of create_new_session that stores the two clock readings the other
\* way round
CreateNewSession_swapped(s, t1, t2) ==
    LET session_id == s.next_session + 1
        session == [id |-> session_id,
                    name |-> DefaultName(Cardinality(DOMAIN s.chat_history.sessions) + 1),
                    created_at |-> IsoFormat(t2),
                    updated_at |-> IsoFormat(t1),
                    messages |-> <<>>,
                    documents |-> s.document_metadata]
    IN [s |-> [s EXCEPT !.next_session = session_id,
                        !.clock = t2,
                        !.chat_history =
                            [sessions |-> (session_id :> session) @@ s.chat_history.sessions,
                             active_session |-> session_id]],
        session_id |-> session_id, status |-> 201]

\* variant of create_new_session that writes a store holding only the new
\* session
CreateNewSession_alone(s, t1, t2) ==
    LET session_id == s.next_session + 1
        session == [id |-> session_id,
                    name |-> DefaultName(Cardinality(DOMAIN s.chat_history.sessions) + 1),
                    created_at |-> IsoFormat(t1),
                    updated_at |-> IsoFormat(t2),
                    messages |-> <<>>,
                    documents |-> s.document_metadata]
    IN [s |-> [s EXCEPT !.next_session = session_id,
                        !.clock = t2,
                        !.chat_history =
                            [sessions |-> (session_id :> session),
                             active_session |-> session_id]],
        session_id |-> session_id, status |-> 201]

\* create_new_session, lines 103-138, as called by POST /chat/session/new
\* (no first question); t1 and t2 are the two readings of the clock
CreateNewSession(s, t1, t2) ==
    LET session_id == s.next_session + 1
        session == [id |-> session_id,
                    name |-> DefaultName(Cardinality(DOMAIN s.chat_history.sessions) + 1),
                    created_at |-> IsoFormat(t1),
                    updated_at |-> IsoFormat(t2),
                    messages |-> <<>>,
                    documents |-> s.document_metadata]
    IN [s |-> [s EXCEPT !.next_session = session_id,
                        !.clock = t2,
                        !.chat_history =
                            [sessions |-> (session_id :> session) @@ s.chat_history.sessions,
                             active_session |-> session_id]],
        session_id |-> session_id, status |-> 201]

\* variant of get_session that loads the vector store whatever the snapshot
GetSession_always(s, session_id, chroma_ok, qa_ok) ==
    LET s0 == [s EXCEPT !.chat_history.active_session = session_id]
        l == LoadSessionVectorStore(s0, session_id, chroma_ok, qa_ok)
    IN IF session_id \notin DOMAIN s.chat_history.sessions
       THEN [s |-> s, status |-> 404, load |-> "notcalled"]
       ELSE [s |-> Canon(l.s), status |-> 200, load |-> l.path]

\* GET /chat/session/<session_id>, lines 690-715
GetSession(s, session_id, chroma_ok, qa_ok) ==
    LET s0 == [s EXCEPT !.chat_history.active_session = session_id]
        l == LoadSessionVectorStore(s0, session_id, chroma_ok, qa_ok)
    IN IF session_id \notin DOMAIN s.chat_history.sessions
       THEN [s |-> s, status |-> 404, load |-> "notcalled"]
       ELSE IF Len(s.chat_history.sessions[session_id].documents) > 0
       THEN [s |-> Canon(l.s), status |-> 200, load |-> l.path]
       ELSE [s |-> s0, status |-> 200, load |-> "notcalled"]

\* variant of add_message_to_session that opens a session for an id it does
\* not find
AddMessageToSession_open(s, session_id, question, t) ==
    LET sessions == s.chat_history.sessions
        message == [id |-> s.next_message + 1, question |-> question]
        known == IF session_id \in DOMAIN sessions
                 THEN sessions[session_id]
                 ELSE [id |-> session_id, name |-> <<>>, created_at |-> IsoFormat(t),
                       updated_at |-> IsoFormat(t), messages |-> <<>>,
                       documents |-> s.document_metadata]
        messages == Append(known.messages, message)
        session == [known EXCEPT
                        !.messages = messages,
                        !.updated_at = IsoFormat(t),
                        !.name = IF Len(messages) = 1 THEN GenerateChatName(question) ELSE @]
    IN [s |-> [s EXCEPT !.next_message = @ + 1,
                        !.clock = t,
                        !.chat_history.sessions =
                            [id \in DOMAIN sessions \cup {session_id} |->
                                IF id = session_id THEN session ELSE sessions[id]]],
        result |-> TRUE]

\* add_message_to_session, lines 140-182; t is the reading of the clock
\* stored as updated_at.  Of a message the id and the question are kept
\* (timestamp, answer and citations are read by no function).  Every session
\* is created with its documents, so lines 169-174 never apply.
AddMessageToSession(s, session_id, question, t) ==
    LET sessions == s.chat_history.sessions
        message == [id |-> s.next_message + 1, question |-> question]
        messages == Append(sessions[session_id].messages, message)
        session == [sessions[session_id] EXCEPT
                        !.messages = messages,
                        !.updated_at = IsoFormat(t),
                        !.name = IF Len(messages) = 1 THEN GenerateChatName(question) ELSE @]
    IN IF session_id \notin DOMAIN sessions
       THEN [s |-> s, result |-> FALSE]
       ELSE [s |-> [s EXCEPT !.next_message = @ + 1,
                             !.clock = t,
                             !.chat_history.sessions[session_id] = session],
             result |-> TRUE]

\* the sidebar entry of a session, lines 673-679
Summary(session) ==
    [id |-> session.id, name |-> session.name, created_at |-> session.created_at,
     updated_at |-> session.updated_at, message_count |-> Len(session.messages)]

\* GET /chat/sessions, lines 663-688
GetChatSessions(s) ==
    LET sessions_list == SortByUpdatedDesc(ValuesOf(s.chat_history.sessions,
                                                    DOMAIN s.chat_history.sessions))
    IN [s |-> s, status |-> 200,
        sessions |-> [i \in 1..Len(sessions_list) |-> Summary(sessions_list[i])],
        active_session |-> s.chat_history.active_session,
        count |-> Len(sessions_list)]

\* variant of rename_session that rejects a name at the limit
RenameSession_below(s, session_id, name, t) ==
    LET new_name == Strip(name)
    IN IF new_name = <<>> \/ Len(new_name) >= NameLimit
       THEN [s |-> s, status |-> 400]
       ELSE IF session_id \notin DOMAIN s.chat_history.sessions
       THEN [s |-> s, status |-> 404]
       ELSE [s |-> [s EXCEPT !.clock = t,
                             !.chat_history.sessions[session_id].name = new_name,
                             !.chat_history.sessions[session_id].updated_at = IsoFormat(t)],
             status |-> 200]

\* PUT /chat/session/<session_id>/rename, lines 730-757, for a request that
\* carries a name; t is the reading of the clock
RenameSession(s, session_id, name, t) ==
    LET new_name == Strip(name)
    IN IF new_name = <<>> \/ Len(new_name) > NameLimit
       THEN [s |-> s, status |-> 400]
       ELSE IF session_id \notin DOMAIN s.chat_history.sessions
       THEN [s |-> s, status |-> 404]
       ELSE [s |-> [s EXCEPT !.clock = t,
                             !.chat_history.sessions[session_id].name = new_name,
                             !.chat_history.sessions[session_id].updated_at = IsoFormat(t)],
             status |-> 200]

\* variant of delete_session that leaves active_session as it is
DeleteSession_keepactive(s, session_id) ==
    LET sessions == s.chat_history.sessions
    IN IF session_id \notin DOMAIN sessions
       THEN [s |-> s, status |-> 404]
       ELSE [s |-> [s EXCEPT !.chat_history.sessions =
                        [id \in DOMAIN sessions \ {session_id} |-> sessions[id]]],
             status |-> 200]

\* DELETE /chat/session/<session_id>, lines 759-782
DeleteSession(s, session_id) ==
    LET sessions == s.chat_history.sessions
    IN IF session_id \notin DOMAIN sessions
       THEN [s |-> s, status |-> 404]
       ELSE [s |-> [s EXCEPT !.chat_history =
                        [sessions |-> [id \in DOMAIN sessions \ {session_id} |-> sessions[id]],
                         active_session |-> IF @.active_session = session_id
                                            THEN None ELSE @.active_session]],
             status |-> 200]

\* the process is started again, lines 59-63 and 850-856: the globals are
\* initialised, nothing is restored; the files, the uuids already drawn and
\* the clock are what they were
Restart(s) ==
    [s |-> [s EXCEPT !.vector_store = None, !.qa_chain = None,
                     !.heap = [h \in Handles |-> FreeHandle],
                     !.document_metadata = <<>>, !.all_documents = <<>>,
                     !.active_session_id = None]]

\* ---- the requests' inputs ----
\* questions: one that fits the name limit once stripped, one that does not
Questions == {Padded(Text(ChatNameLimit)), Text(ChatNameLimit + 10)}

\* names: blank, at the limit once stripped, over the limit
Names == {Padded(<<>>), Padded(Text(NameLimit)), Text(NameLimit + 1)}

\* ---- the state machine ----
SetGlobals(s) ==
    /\ vector_store' = s.vector_store
    /\ qa_chain' = s.qa_chain
    /\ heap' = s.heap
    /\ document_metadata' = s.document_metadata
    /\ all_documents' = s.all_documents
    /\ active_session_id' = s.active_session_id
    /\ uploads' = s.uploads
    /\ session_file' = s.session_file
    /\ chat_history' = s.chat_history
    /\ next_file' = s.next_file
    /\ next_session' = s.next_session
    /\ next_message' = s.next_message
    /\ clock' = s.clock

\* a request handled from its first line to its last with no other request
\* in between
SetState(s) ==
    /\ SetGlobals(s)
    /\ next_request' = next_request
    /\ inflight' = inflight

Init ==
    /\ vector_store = None
    /\ qa_chain = None
    /\ heap = [h \in Handles |-> FreeHandle]
    /\ document_metadata = <<>>
    /\ all_documents = <<>>
    /\ active_session_id = None
    /\ uploads = {}
    /\ session_file = [exists |-> FALSE, document_metadata |-> <<>>]
    /\ chat_history = [sessions |-> <<>>, active_session |-> None]
    /\ next_file = 0
    /\ next_session = 0
    /\ next_message = 0
    /\ clock = 0
    /\ next_request = 0
    /\ inflight = EmptyBag

upload_document ==
    /\ next_file < MaxFiles
    /\ next_file + next_session + next_message < MaxCreated
    /\ \E add_to_existing \in BOOLEAN, fail \in Failures :
           SetState(UploadDocument(State, add_to_existing, fail).s)

chat ==
    /\ \E llm_ok \in BOOLEAN : SetState(Chat(State, llm_ok).s)

remove_document ==
    /\ \E file_id \in FileIds, fail \in Failures :
           SetState(RemoveDocument(State, file_id, fail).s)

clear_database ==
    /\ \E clear_history \in BOOLEAN : SetState(ClearDatabase(State, clear_history).s)

restore_previous_session ==
    /\ \E fail \in Failures : SetState(RestorePreviousSession(State, fail).s)

new_session ==
    /\ next_session < MaxSessions
    /\ next_file + next_session + next_message < MaxCreated
    /\ \E t1 \in Times, t2 \in Times :
           clock <= t1 /\ t1 <= t2 /\ SetState(CreateNewSession(State, t1, t2).s)

get_session ==
    /\ \E session_id \in SessionIds, chroma_ok \in BOOLEAN, qa_ok \in BOOLEAN :
           SetState(GetSession(State, session_id, chroma_ok, qa_ok).s)

delete_session ==
    /\ \E session_id \in SessionIds : SetState(DeleteSession(State, session_id).s)

\* add_message_to_session is called by no route; it is the Session Store's
\* append, callable with any session id
add_message_to_session ==
    /\ next_message < MaxMessages
    /\ next_file + next_session + next_message < MaxCreated
    /\ \E session_id \in SessionIds, question \in Questions, t \in Times :
           clock <= t /\ SetState(AddMessageToSession(State, session_id, question, t).s)

rename_session ==
    /\ \E session_id \in SessionIds, name \in Names, t \in Times :
           clock <= t /\ SetState(RenameSession(State, session_id, name, t).s)

get_chat_sessions ==
    /\ SetState(GetChatSessions(State).s)

restart ==
    /\ SetState(Restart(State).s)

\* the document side: slot, registry, uploads, and the sessions they meet
Next ==
    \/ upload_document
    \/ chat
    \/ remove_document
    \/ clear_database
    \/ restore_previous_session
    \/ new_session
    \/ get_session
    \/ delete_session
    \/ restart

Spec == Init /\ [][Next]_vars

\* the Session Store: the functions and routes that edit history.json
SessionNext ==
    \/ new_session
    \/ add_message_to_session
    \/ get_chat_sessions
    \/ get_session
    \/ rename_session
    \/ delete_session
    \/ clear_database

SessionSpec == Init /\ [][SessionNext]_vars

\* the whole program: every route, the append and the restart
AppNext ==
    \/ upload_document
    \/ chat
    \/ remove_document
    \/ clear_database
    \/ restore_previous_session
    \/ new_session
    \/ add_message_to_session
    \/ get_chat_sessions
    \/ get_session
    \/ rename_session
    \/ delete_session
    \/ restart

AppSpec == Init /\ [][AppNext]_vars

\* ---- requests handled at the same time ----
\* The development server handles every request in a thread of its own.  A
\* request of the Session Store calls load_chat_sessions, edits the dict it
\* got and calls save_chat_sessions with it; other requests run in between.
Ops == {"create", "append", "get", "rename", "delete"}

\* load_chat_sessions, lines 69-84: the dict json.dump wrote is read back; a
\* missing file reads as the empty store, which is what Init holds
LoadChatSessions(s) == s.chat_history

\* rename_session rejects a bad name (lines 738-740) before it loads
ValidNames == {name \in Names : Strip(name) # <<>> /\ Len(Strip(name)) <= NameLimit}

\* what a request carries besides the session id
Args(op) ==
    CASE op = "append" -> Questions
      [] op = "rename" -> ValidNames
      [] OTHER -> {<<>>}

\* the requests in flight that will draw a uuid of the given kinds
Pending(ops) ==
    LET S == {r \in BagToSet(inflight) : r.op \in ops}
    IN BagCardinality([r \in S |-> inflight[r]])

Max(a, b) == IF a >= b THEN a ELSE b

\* variant of a request's second half that edits the file as it is when the
\* request saves, not the copy the request loaded
EndRequest_atomic(s, r, t1, t2, chroma_ok, qa_ok) ==
    LET out ==
            CASE r.op = "create" ->
                     [s |-> CreateNewSession(s, t1, t2).s, saved |-> TRUE]
              [] r.op = "append" ->
                     LET a == AddMessageToSession(s, r.session_id, r.arg, t2)
                     IN [s |-> a.s, saved |-> a.result]
              [] r.op = "get" ->
                     LET g == GetSession(s, r.session_id, chroma_ok, qa_ok)
                     IN [s |-> g.s, saved |-> g.status = 200]
              [] r.op = "rename" ->
                     LET n == RenameSession(s, r.session_id, r.arg, t2)
                     IN [s |-> n.s, saved |-> n.status = 200]
              [] r.op = "delete" ->
                     LET d == DeleteSession(s, r.session_id)
                     IN [s |-> d.s, saved |-> d.status = 200]
    IN IF out.saved
       THEN [s |-> [out.s EXCEPT !.clock = Max(s.clock, @)], saved |-> TRUE]
       ELSE [s |-> s, saved |-> FALSE]

\* variant of a request's second half that takes the sessions from the copy
\* it loaded and active_session from the file as it is when the request saves
EndRequest_fileactive(s, r, t1, t2, chroma_ok, qa_ok) ==
    LET base == [s EXCEPT !.chat_history.sessions = r.data.sessions]
        out ==
            CASE r.op = "create" ->
                     [s |-> CreateNewSession(base, t1, t2).s, saved |-> TRUE]
              [] r.op = "append" ->
                     LET a == AddMessageToSession(base, r.session_id, r.arg, t2)
                     IN [s |-> a.s, saved |-> a.result]
              [] r.op = "get" ->
                     LET g == GetSession(base, r.session_id, chroma_ok, qa_ok)
                     IN [s |-> g.s, saved |-> g.status = 200]
              [] r.op = "rename" ->
                     LET n == RenameSession(base, r.session_id, r.arg, t2)
                     IN [s |-> n.s, saved |-> n.status = 200]
              [] r.op = "delete" ->
                     LET d == DeleteSession(base, r.session_id)
                     IN [s |-> d.s, saved |-> d.status = 200]
    IN IF out.saved
       THEN [s |-> [out.s EXCEPT !.clock = Max(s.clock, @)], saved |-> TRUE]
       ELSE [s |-> s, saved |-> FALSE]

\* the part of a request that follows its load_chat_sessions: the handler
\* runs on the copy r.data it loaded (lines 109, 142, 693, 742, 762) and, when
\* it does not return early, save_chat_sessions overwrites the file with the
\* edited copy (lines 133, 177, 700, 749, 775).  t1 and t2 are the readings of
\* the clock the request takes, which other requests' readings may follow
\* before it saves.
EndRequest(s, r, t1, t2, chroma_ok, qa_ok) ==
    LET base == [s EXCEPT !.chat_history = r.data]
        out ==
            CASE r.op = "create" ->
                     [s |-> CreateNewSession(base, t1, t2).s, saved |-> TRUE]
              [] r.op = "append" ->
                     LET a == AddMessageToSession(base, r.session_id, r.arg, t2)
                     IN [s |-> a.s, saved |-> a.result]
              [] r.op = "get" ->
                     LET g == GetSession(base, r.session_id, chroma_ok, qa_ok)
                     IN [s |-> g.s, saved |-> g.status = 200]
              [] r.op = "rename" ->
                     LET n == RenameSession(base, r.session_id, r.arg, t2)
                     IN [s |-> n.s, saved |-> n.status = 200]
              [] r.op = "delete" ->
                     LET d == DeleteSession(base, r.session_id)
                     IN [s |-> d.s, saved |-> d.status = 200]
    IN IF out.saved
       THEN [s |-> [out.s EXCEPT !.clock = Max(s.clock, @)], saved |-> TRUE]
       ELSE [s |-> s, saved |-> FALSE]

\* a request reaches its load_chat_sessions.  A request for a session id the
\* file does not hold returns 404 in the lines that follow the load (143-145,
\* 694-695, 743-744, 763-764) and changes nothing, so it does not stay in
\* flight.
load_chat_sessions ==
    /\ BagCardinality(inflight) < MaxThreads
    /\ next_request < MaxRequests
    /\ next_request' = next_request + 1
    /\ \E op \in Ops, session_id \in SessionIds :
           \E arg \in Args(op) :
               /\ op = "create" =>
                      /\ session_id = 1
                      /\ next_session + Pending({"create"}) < MaxSessions
               /\ op # "create" => session_id \in DOMAIN chat_history.sessions
               /\ op = "append" => next_message + Pending({"append"}) < MaxMessages
               /\ op \in {"create", "append"} =>
                      next_file + next_session + next_message
                          + Pending({"create", "append"}) < MaxCreated
               /\ inflight' = inflight (+) SetToBag({[op |-> op,
                                                      session_id |-> IF op = "create"
                                                                     THEN None ELSE session_id,
                                                      arg |-> arg,
                                                      data |-> LoadChatSessions(State),
                                                      since |-> clock]})
    /\ UNCHANGED <<vector_store, qa_chain, heap, document_metadata, all_documents,
                   active_session_id, uploads, session_file, chat_history,
                   next_file, next_session, next_message, clock>>

\* a request in flight runs to its end: it saves its copy, or returns early
save_chat_sessions ==
    /\ \E r \in BagToSet(inflight), t1 \in Times, t2 \in Times,
          chroma_ok \in BOOLEAN, qa_ok \in BOOLEAN :
           /\ r.since <= t1 /\ t1 <= t2
           /\ SetGlobals(EndRequest(State, r, t1, t2, chroma_ok, qa_ok).s)
           /\ inflight' = inflight (-) SetToBag({r})
           /\ next_request' = next_request

\* the Session Store under requests that overlap
RaceNext ==
    \/ load_chat_sessions
    \/ save_chat_sessions
    \/ clear_database

RaceSpec == Init /\ [][RaceNext]_vars

(***************************************************************************)
(* Claims.  A claim about a request is stated over every reachable state   *)
(* and every input of the handler: the handler is applied to the state.    *)
(***************************************************************************)
Slot(s) == <<s.vector_store, s.heap, s.all_documents, s.active_session_id>>

Range(seq) == {seq[i] : i \in 1..Len(seq)}

LiveHandles == {h \in Handles : heap[h] # FreeHandle}

\* the chunks of the file the next upload stores
NextChunks == [i \in 1..NumChunks(next_file + 1) |-> [file_id |-> next_file + 1, i |-> i]]

\* sessions whose document snapshot is not empty: get_session calls
\* load_session_vector_store for these
WithDocuments ==
    {sid \in DOMAIN chat_history.sessions : chat_history.sessions[sid].documents # <<>>}

\* C1: no drift - in every reachable state the chunk list all_documents is
\* exactly the set of chunks the held index handle contains (nothing when no
\* handle is held), and at most one handle exists.
C1_NoDrift ==
    /\ vector_store = None => all_documents = <<>>
    /\ vector_store # None => Range(heap[vector_store].docs) = Range(all_documents)
    /\ Cardinality(LiveHandles) <= 1

\* C2: single active index - once get_session(s) has made s the active
\* session, a successful answer that follows is served from an index bound
\* to s, also when the snapshot of s is empty.
C2_SingleActiveIndex ==
    \A sid \in SessionIds, chroma_ok \in BOOLEAN, qa_ok \in BOOLEAN :
        LET g == GetSession(State, sid, chroma_ok, qa_ok)
            a == Chat(g.s, TRUE)
        IN (g.status = 200 /\ a.status = 200) => a.served = <<"session", sid>>

\* C3: rebuild is atomic - when the fresh-build branch of create_vector_store
\* raises, the handle, the chunk list and the bound session are what they
\* were before the call.
C3_RebuildAtomic ==
    [][\A add_to_existing \in BOOLEAN :
          LET u == UploadDocument(State, add_to_existing, "index")
          IN (State' = u.s /\ u.branch = "create" /\ u.status = 500)
                 => Slot(State)' = Slot(State)]_vars

\* the slot can be extended for an upload: a handle is held and it is bound
\* to the caller's target session (None for uploads)
Extendable == vector_store # None /\ active_session_id = None

\* C4 as stated: an upload with add_to_existing=true succeeds only when the
\* slot holds a handle bound to the target session; in every other state it
\* fails and leaves the slot unchanged.
C4_ExtendRequiresBinding ==
    [][\A fail \in Failures :
          LET u == UploadDocument(State, TRUE, fail)
          IN (State' = u.s /\ ~Extendable)
                 => (u.status # 200 /\ Slot(State)' = Slot(State))]_vars

\* C4 amended: with add_to_existing=true the chunks are appended to the held
\* index exactly when the slot holds a handle bound to the target session; in
\* every other state a fresh index holding only the new chunks replaces the
\* slot and the slot is bound to the target session.
C4_ExtendOrRebuild ==
    \A fail \in Failures :
        LET u == UploadDocument(State, TRUE, fail)
        IN IF Extendable
           THEN /\ u.branch = "extend"
                /\ u.s.all_documents = all_documents \o NextChunks
                /\ u.s.active_session_id = active_session_id
                /\ u.s.vector_store = vector_store
                /\ u.s.heap[vector_store].collection = heap[vector_store].collection
                /\ fail # "index" =>
                       u.s.heap[vector_store].docs = heap[vector_store].docs \o NextChunks
           ELSE /\ u.branch = "create"
                /\ u.s.all_documents = NextChunks
                /\ u.s.active_session_id = None
                /\ fail # "index" =>
                       /\ u.s.vector_store # None
                       /\ u.s.heap[u.s.vector_store] =
                              [collection |-> <<"docuchat", None>>, docs |-> NextChunks]

\* C4 witness: an index bound to a session is held and the upload with
\* add_to_existing=true replaces it
C4_Witness ==
    /\ vector_store # None /\ active_session_id # None /\ next_file < MaxFiles
    /\ LET u == UploadDocument(State, TRUE, "none")
       IN u.status = 200 /\ u.branch = "create" /\ u.s.all_documents = NextChunks

\* C5: cache hit - load_session_vector_store(s) called while the slot is
\* bound to s and holds a handle returns true and leaves the handle, the
\* chunk list, the bound session and the QA chain unchanged.
C5_CacheHit ==
    \A sid \in SessionIds, chroma_ok \in BOOLEAN, qa_ok \in BOOLEAN :
        (active_session_id = sid /\ vector_store # None)
            => LET l == LoadSessionVectorStore(State, sid, chroma_ok, qa_ok)
                   g == GetSession(State, sid, chroma_ok, qa_ok)
               IN /\ l.result
                  /\ Slot(l.s) = Slot(State) /\ l.s.qa_chain = qa_chain
                  /\ sid \in WithDocuments =>
                         (g.load = "hit" /\ Slot(g.s) = Slot(State) /\ g.s.qa_chain = qa_chain)

\* C5 witness: the slot was loaded for a stored session and get_session asks
\* for that session again
C5_Witness ==
    \E sid \in WithDocuments :
        /\ active_session_id = sid /\ vector_store # None
        /\ heap[vector_store].collection = <<"session", sid>>
        /\ GetSession(State, sid, TRUE, TRUE).load = "hit"

\* C6: miss - load_session_vector_store(s) for a session without a durable
\* index (none is ever built: no caller passes a session id to
\* create_vector_store), the slot not being bound to s with a handle, returns
\* false and leaves the slot untouched.
C6_LoadMiss ==
    [][\A sid \in WithDocuments, chroma_ok \in BOOLEAN, qa_ok \in BOOLEAN :
          LET g == GetSession(State, sid, chroma_ok, qa_ok)
          IN (State' = g.s /\ ~(active_session_id = sid /\ vector_store # None))
                 => (g.load = "raised" /\ Slot(State)' = Slot(State))]_vars

\* C7: after clear_database the slot has no handle, no chunks and no bound
\* session, and the registry is empty.
C7_ClearResets ==
    [][\A clear_history \in BOOLEAN :
          State' = ClearDatabase(State, clear_history).s
              => /\ vector_store' = None
                 /\ all_documents' = <<>>
                 /\ active_session_id' = None
                 /\ document_metadata' = <<>>]_vars

\* C8: after remove_document succeeds on the only record of the registry the
\* slot has no handle and chat fails with NoActiveIndex (status 400).
C8_LastDocumentRemoved ==
    [][\A f \in FileIds, fail \in Failures :
          LET r == RemoveDocument(State, f, fail)
          IN (State' = r.s /\ Keys(document_metadata) = {f} /\ r.status = 200)
                 => (vector_store' = None /\ Chat(r.s, TRUE).status = 400)]_vars

\* docs without the chunks of document f, order kept
RECURSIVE Without(_, _)
Without(docs, f) ==
    IF docs = <<>> THEN <<>>
    ELSE IF Head(docs).file_id = f THEN Without(Tail(docs), f)
    ELSE <<Head(docs)>> \o Without(Tail(docs), f)

\* C9: after remove_document(id) succeeds with at least one remaining chunk,
\* the registry no longer contains id, the chunk list is the previous chunk
\* list without the chunks of id in the same order, the slot holds a fresh
\* index of exactly those chunks, and no chunk of id is retrievable.
C9_RemoveRebuilds ==
    \A f \in FileIds, fail \in Failures :
        LET r == RemoveDocument(State, f, fail)
        IN (r.status = 200 /\ Without(all_documents, f) # <<>>)
               => /\ Keys(r.s.document_metadata) = Keys(document_metadata) \ {f}
                  /\ r.s.all_documents = Without(all_documents, f)
                  /\ r.s.vector_store # None
                  /\ r.s.heap[r.s.vector_store].docs = r.s.all_documents
                  /\ r.s.qa_chain = r.s.vector_store
                  /\ f \notin FileIdsIn(r.s.heap[r.s.qa_chain].docs)

\* C9 witness: two documents are indexed and one of them is removed
C9_Witness ==
    \E f \in Keys(document_metadata) :
        /\ Len(document_metadata) = 2
        /\ FileIdsIn(all_documents) = Keys(document_metadata)
        /\ LET r == RemoveDocument(State, f, "none")
           IN r.status = 200 /\ r.s.all_documents # <<>> /\ Len(r.s.document_metadata) = 1

\* C10: uploading A (fresh build) and then B with add_to_existing=true yields
\* a registry with both records and a chunk list of A's chunks followed by
\* B's chunks (count = sum of the chunk counts); removing A then leaves
\* exactly B's chunks.
C10_UploadTwoRemoveOne ==
    \A add_first \in BOOLEAN :
        LET a == UploadDocument(State, add_first, "none")
            b == UploadDocument(a.s, TRUE, "none")
            r == RemoveDocument(b.s, a.file_id, "none")
            chunksA == [i \in 1..NumChunks(a.file_id) |-> [file_id |-> a.file_id, i |-> i]]
            chunksB == [i \in 1..NumChunks(b.file_id) |-> [file_id |-> b.file_id, i |-> i]]
        IN a.branch = "create"
               => /\ a.status = 200 /\ b.status = 200 /\ r.status = 200
                  /\ Keys(b.s.document_metadata) = Keys(document_metadata) \cup {a.file_id, b.file_id}
                  /\ b.s.all_documents = chunksA \o chunksB
                  /\ Len(b.s.all_documents) = NumChunks(a.file_id) + NumChunks(b.file_id)
                  /\ b.s.heap[b.s.vector_store].docs = chunksA \o chunksB
                  /\ a.file_id \notin Keys(r.s.document_metadata)
                  /\ b.file_id \in Keys(r.s.document_metadata)
                  /\ r.s.all_documents = chunksB
                  /\ r.s.heap[r.s.vector_store].docs = chunksB

\* C10 witness: the 3 + 2 = 5 case after the second upload
C10_Witness ==
    /\ Len(document_metadata) = 2
    /\ document_metadata[1].chunks = 3 /\ document_metadata[2].chunks = 2
    /\ Len(all_documents) = 5
    /\ FileIdsIn(SubSeq(all_documents, 1, 3)) = {document_metadata[1].file_id}
    /\ FileIdsIn(SubSeq(all_documents, 4, 5)) = {document_metadata[2].file_id}
    /\ vector_store # None /\ heap[vector_store].docs = all_documents
    /\ LET r == RemoveDocument(State, document_metadata[1].file_id, "none")
       IN r.status = 200 /\ Len(r.s.all_documents) = 2

\* C11: chat fails with NoActiveIndex (status 400) exactly when the slot holds
\* no index handle: with no handle it returns 400 and changes nothing, with a
\* handle it does not return 400.
C11_NoActiveIndexIffNoHandle ==
    \A llm_ok \in BOOLEAN :
        LET a == Chat(State, llm_ok)
        IN /\ vector_store = None => (a.status = 400 /\ a.s = State)
           /\ vector_store # None => a.status # 400

\* C12: every successful answer appends one message to the active session:
\* after a chat that returns 200 the active session has one message more than
\* before.
C12_AnswerAppendsMessage ==
    \A sid \in DOMAIN chat_history.sessions :
        chat_history.active_session = sid
            => LET a == Chat(State, TRUE)
               IN a.status = 200
                      => Len(a.s.chat_history.sessions[sid].messages)
                             = Len(chat_history.sessions[sid].messages) + 1

\* C13: create_new_session adds exactly one session under an id never issued
\* before, with no messages and with the registry of that moment as its
\* documents, makes it the active session, and leaves every session that
\* existed as it was.
C13_CreateSession ==
    \A t1 \in Times, t2 \in Times :
        (clock <= t1 /\ t1 <= t2)
            => LET c == CreateNewSession(State, t1, t2)
                   old == chat_history.sessions
                   new == c.s.chat_history.sessions
               IN /\ c.session_id > next_session
                  /\ c.session_id \notin DOMAIN old
                  /\ DOMAIN new = DOMAIN old \cup {c.session_id}
                  /\ new[c.session_id].messages = <<>>
                  /\ new[c.session_id].documents = document_metadata
                  /\ c.s.chat_history.active_session = c.session_id
                  /\ \A sid \in DOMAIN old : new[sid] = old[sid]

\* C13 witness: a session is stored, the registry holds a document, and the
\* new session snapshots it beside the stored one
C13_Witness ==
    /\ DOMAIN chat_history.sessions # {}
    /\ document_metadata # <<>>
    /\ LET c == CreateNewSession(State, clock, clock)
       IN /\ Cardinality(DOMAIN c.s.chat_history.sessions) = 2
          /\ c.s.chat_history.sessions[c.session_id].documents # <<>>

\* C14: add_message_to_session with a session id that is not in the store
\* returns false and leaves sessions and active_session as they were.
C14_AppendUnknown ==
    \A sid \in SessionIds, question \in Questions, t \in Times :
        (sid \notin DOMAIN chat_history.sessions /\ clock <= t)
            => LET r == AddMessageToSession(State, sid, question, t)
               IN ~r.result /\ r.s.chat_history = chat_history

\* C14 witness: a session is stored, another one was deleted, and a message
\* is added under the deleted id
C14_Witness ==
    \E sid \in 1..next_session :
        /\ sid \notin DOMAIN chat_history.sessions
        /\ DOMAIN chat_history.sessions # {}
        /\ ~AddMessageToSession(State, sid, Text(1), clock).result

\* test strings of the given lengths: raw is what the request carries, the
\* text alone or with blanks around it; trimmed is the text alone, which
\* neither begins nor ends with a blank
TestTexts(lengths) ==
    LET text(n) == [i \in 1..n |-> IF i % 2 = 1 THEN "a" ELSE "b"]
    IN {[raw |-> text(n), trimmed |-> text(n)] : n \in lengths}
       \cup {[raw |-> <<" ", " ">> \o text(n) \o <<" ">>, trimmed |-> text(n)] : n \in lengths}

\* the questions the claims about names are checked with: below, at and
\* above the limit of 50 characters
TestQuestions == TestTexts({0, 1, 49, 50, 51, 60})

\* the 50-character rule: str itself up to 50 characters, else its first 47
\* characters and three dots
Rule50(str) ==
    IF Len(str) <= 50 THEN str ELSE [i \in 1..50 |-> IF i <= 47 THEN str[i] ELSE "."]

\* C15 as stated: the first message of a session names it by the rule applied
\* to the question itself.
C15_FirstMessageNamesVerbatim ==
    [][\A sid \in DOMAIN chat_history.sessions, question \in Questions, t \in Times :
          (/\ State' = AddMessageToSession(State, sid, question, t).s
           /\ chat_history.sessions[sid].messages = <<>>)
              => chat_history'.sessions[sid].name = Rule50(question)]_vars

\* C15 amended: the first message of a session names it by the rule applied
\* to the question without its leading and trailing blanks, whatever name the
\* session had; a later message leaves the name as it is.
C15_FirstMessageNames ==
    \A sid \in DOMAIN chat_history.sessions, question \in TestQuestions, t \in Times :
        clock <= t
            => LET old == chat_history.sessions[sid]
                   r == AddMessageToSession(State, sid, question.raw, t)
                   new == r.s.chat_history.sessions[sid]
               IN /\ r.result
                  /\ Len(new.messages) = Len(old.messages) + 1
                  /\ new.name = IF old.messages = <<>> THEN Rule50(question.trimmed)
                                ELSE old.name
                  /\ Len(new.name) <= 50 \/ new.name = old.name

\* C15 witness: the first message of a session carried a question of 60
\* characters, the name is its first 47 characters and three dots, and a
\* second message with another question keeps that name
C15_Witness ==
    \E sid \in DOMAIN chat_history.sessions :
        LET session == chat_history.sessions[sid]
        IN /\ Len(session.messages) = 1
           /\ Len(session.messages[1].question) = 60
           /\ Len(session.name) = 50
           /\ SubSeq(session.name, 1, 47) = SubSeq(session.messages[1].question, 1, 47)
           /\ SubSeq(session.name, 48, 50) = <<".", ".", ".">>
           /\ AddMessageToSession(State, sid, <<"a">>, clock).s.chat_history.sessions[sid].name
                  = session.name

\* the instant an isoformat string names, in clock ticks
Instant(str) == str[1] * TicksPerSecond + (IF Len(str) > 1 THEN str[2] ELSE 0)

\* C16: get_chat_sessions returns one summary for every stored session and no
\* other, ordered by updated_at from the latest to the earliest, each with
\* the name and the number of messages of its session, and changes no state.
C16_ListSessions ==
    LET l == GetChatSessions(State)
        sessions == chat_history.sessions
        n == Len(l.sessions)
    IN /\ l.s = State
       /\ l.status = 200
       /\ n = Cardinality(DOMAIN sessions) /\ l.count = n
       /\ {l.sessions[i].id : i \in 1..n} = DOMAIN sessions
       /\ \A i \in 1..n :
              LET session == sessions[l.sessions[i].id]
              IN /\ l.sessions[i].message_count = Len(session.messages)
                 /\ l.sessions[i].name = session.name
                 /\ l.sessions[i].updated_at = session.updated_at
                 /\ DOMAIN l.sessions[i]
                        = {"id", "name", "created_at", "updated_at", "message_count"}
       /\ \A i \in 1..n, j \in 1..n :
              i < j => Instant(l.sessions[i].updated_at) >= Instant(l.sessions[j].updated_at)

\* C16 witness: two sessions, the one created first updated last, so the list
\* is not in the order of creation; one timestamp has a fraction, one has not
C16_Witness ==
    LET l == GetChatSessions(State)
    IN /\ Len(l.sessions) = 2
       /\ l.sessions[1].id < l.sessions[2].id
       /\ Len(l.sessions[1].updated_at) # Len(l.sessions[2].updated_at)
       /\ Instant(l.sessions[1].updated_at) > Instant(l.sessions[2].updated_at)

\* C17: get_session(id) answers 404 and changes nothing when id is not
\* stored; when it is stored it answers 200, makes id the active session,
\* leaves the sessions as they are, and calls load_session_vector_store(id)
\* if and only if the session's document snapshot is not empty.
C17_GetSession ==
    \A sid \in SessionIds, chroma_ok \in BOOLEAN, qa_ok \in BOOLEAN :
        LET g == GetSession(State, sid, chroma_ok, qa_ok)
            sessions == chat_history.sessions
        IN IF sid \notin DOMAIN sessions
           THEN g.status = 404 /\ g.s = State /\ g.load = "notcalled"
           ELSE /\ g.status = 200
                /\ g.s.chat_history = [sessions |-> sessions, active_session |-> sid]
                /\ g.load # "notcalled" <=> sessions[sid].documents # <<>>
                /\ g.load = "notcalled"
                       => (Slot(g.s) = Slot(State) /\ g.s.qa_chain = qa_chain)
                /\ g.load = "loaded"
                       => (/\ g.s.active_session_id = sid
                           /\ g.s.heap[g.s.vector_store].collection = <<"session", sid>>)

\* C17 witness: a session with a document in its snapshot is stored while
\* the slot is not bound to it, so get_session loads; the other id is not
\* stored
C17_Witness ==
    \E sid \in DOMAIN chat_history.sessions, other \in SessionIds :
        /\ chat_history.sessions[sid].documents # <<>>
        /\ active_session_id # sid
        /\ GetSession(State, sid, TRUE, TRUE).load = "loaded"
        /\ GetSession(State, other, TRUE, TRUE).status = 404

\* the names the claim about renaming is checked with: empty, short, around
\* the limit of 100 characters
TestNames == TestTexts({0, 1, 2, 99, 100, 101, 102})

\* C18: rename_session answers 400 when the trimmed name has length 0 or more
\* than 100; for a name of trimmed length 1 to 100 it answers 404 when the id
\* is not stored and otherwise stores the trimmed name; every rejected rename
\* leaves the state as it was.  (The name is validated first: a bad name for
\* an unknown id is rejected as invalid.)
C18_RenameValidation ==
    \A sid \in SessionIds, name \in TestNames, t \in Times :
        clock <= t
            => LET r == RenameSession(State, sid, name.raw, t)
                   n == Len(name.trimmed)
                   sessions == chat_history.sessions
               IN /\ (n = 0 \/ n > 100) => r.status = 400
                  /\ (n >= 1 /\ n <= 100 /\ sid \notin DOMAIN sessions) => r.status = 404
                  /\ (n >= 1 /\ n <= 100 /\ sid \in DOMAIN sessions)
                         => /\ r.status = 200
                            /\ r.s.chat_history.sessions[sid].name = name.trimmed
                            /\ r.s.chat_history.active_session = chat_history.active_session
                            /\ DOMAIN r.s.chat_history.sessions = DOMAIN sessions
                            /\ \A other \in DOMAIN sessions \ {sid} :
                                   r.s.chat_history.sessions[other] = sessions[other]
                  /\ r.status # 200 => r.s = State

\* C18 witness: a session was renamed to a name of 100 characters; a name of
\* 101 characters and a blank name are rejected for it
C18_Witness ==
    \E sid \in DOMAIN chat_history.sessions :
        /\ Len(chat_history.sessions[sid].name) = 100
        /\ chat_history.sessions[sid].messages = <<>>
        /\ RenameSession(State, sid, [i \in 1..101 |-> "a"], clock).status = 400
        /\ RenameSession(State, sid, <<" ", " ">>, clock).status = 400
        /\ RenameSession(State, sid, <<"a">>, clock).status = 200

\* C19: delete_session(id) answers 404 and changes nothing when id is not
\* stored; otherwise it removes that session and no other, sets
\* active_session to null exactly when id was the active session, and leaves
\* the slot, the QA chain and the registry as they were, also when the slot is
\* bound to id.
C19_DeleteSession ==
    \A sid \in SessionIds :
        LET d == DeleteSession(State, sid)
            old == chat_history.sessions
            new == d.s.chat_history.sessions
        IN IF sid \notin DOMAIN old
           THEN d.status = 404 /\ d.s = State
           ELSE /\ d.status = 200
                /\ DOMAIN new = DOMAIN old \ {sid}
                /\ \A other \in DOMAIN new : new[other] = old[other]
                /\ d.s.chat_history.active_session
                       = (IF chat_history.active_session = sid
                          THEN None ELSE chat_history.active_session)
                /\ Slot(d.s) = Slot(State)
                /\ d.s.qa_chain = qa_chain
                /\ d.s.document_metadata = document_metadata

\* C19 witness: the session the slot is bound to has been deleted, and the
\* slot still holds its index
C19_Witness ==
    /\ active_session_id # None
    /\ active_session_id \notin DOMAIN chat_history.sessions
    /\ vector_store # None
    /\ heap[vector_store].collection = <<"session", active_session_id>>
    /\ chat_history.active_session = None

\* the in-memory state is empty: no record, no index handle, no chunk
Empty(s) == s.document_metadata = <<>> /\ s.vector_store = None /\ s.all_documents = <<>>

\* C20: whenever restore_session returns false, the in-memory state
\* afterwards is empty - here even when it was empty before the call, as it
\* is after a start of the process.
C20_RestoreFalseLeavesEmpty ==
    [][\A fail \in Failures :
          LET r == RestoreSession(State, fail)
          IN (State' = r.s /\ ~r.result /\ Empty(State)) => Empty(r.s)]_vars

\* what a request can commit: the registry, the slot (chunk list, bound
\* session, contents of the held index), the index the QA chain reads and
\* session.json; indexes are compared by what they hold, not by handle id
Held(s, h) == IF h = None THEN FreeHandle ELSE s.heap[h]

Committed(s) ==
    <<s.document_metadata, s.all_documents, s.active_session_id,
      Held(s, s.vector_store), Held(s, s.qa_chain), s.session_file>>

\* C21: when an external call fails during upload_document or
\* remove_document (the request answers 500), the registry, the slot, the QA
\* chain and session.json are what they were before the request.
C21_FailureCommitsNothing ==
    [][/\ \A add_to_existing \in BOOLEAN, fail \in Failures :
             LET u == UploadDocument(State, add_to_existing, fail)
             IN (State' = u.s /\ u.status = 500) => Committed(State)' = Committed(State)
       /\ \A file_id \in FileIds, fail \in Failures :
             LET r == RemoveDocument(State, file_id, fail)
             IN (State' = r.s /\ r.status = 500) => Committed(State)' = Committed(State)]_vars

\* every session of the current state is in the store of s2 with the
\* messages it has now at the front of its message list
KeepsSessions(s2) ==
    \A sid \in DOMAIN chat_history.sessions :
        /\ sid \in DOMAIN s2.chat_history.sessions
        /\ LET old == chat_history.sessions[sid].messages
               new == s2.chat_history.sessions[sid].messages
           IN Len(old) <= Len(new) /\ SubSeq(new, 1, Len(old)) = old

\* C22: no session is deleted implicitly - create, append_message,
\* get_session, rename, upload, remove_document, clear with
\* clear_history=false, restore, chat, listing and a restart (the history
\* file is loaded again) keep every session with its messages; delete(id)
\* removes no session but id.
C22_NoImplicitDelete ==
    /\ \A t1 \in Times, t2 \in Times : KeepsSessions(CreateNewSession(State, t1, t2).s)
    /\ \A sid \in SessionIds, question \in Questions, t \in Times :
           KeepsSessions(AddMessageToSession(State, sid, question, t).s)
    /\ \A sid \in SessionIds, chroma_ok \in BOOLEAN, qa_ok \in BOOLEAN :
           KeepsSessions(GetSession(State, sid, chroma_ok, qa_ok).s)
    /\ \A sid \in SessionIds, name \in Names, t \in Times :
           KeepsSessions(RenameSession(State, sid, name, t).s)
    /\ \A add_to_existing \in BOOLEAN, fail \in Failures :
           KeepsSessions(UploadDocument(State, add_to_existing, fail).s)
    /\ \A file_id \in FileIds, fail \in Failures :
           KeepsSessions(RemoveDocument(State, file_id, fail).s)
    /\ KeepsSessions(ClearDatabase(State, FALSE).s)
    /\ \A fail \in Failures : KeepsSessions(RestorePreviousSession(State, fail).s)
    /\ \A llm_ok \in BOOLEAN : KeepsSessions(Chat(State, llm_ok).s)
    /\ KeepsSessions(GetChatSessions(State).s)
    /\ KeepsSessions(Restart(State).s)
    /\ \A sid \in SessionIds :
           DOMAIN chat_history.sessions \ {sid}
               \subseteq DOMAIN DeleteSession(State, sid).s.chat_history.sessions

\* C22 witness: a session has got a message, has been renamed and has gone
\* through a clear_database that keeps the history
C22_Witness ==
    /\ session_file.exists
    /\ \E sid \in DOMAIN chat_history.sessions :
           /\ Len(chat_history.sessions[sid].messages) = 1
           /\ Len(chat_history.sessions[sid].name) = NameLimit

\* C23: with a clock that does not go back, created_at <= updated_at holds
\* for every session in every reachable state, and no step makes the
\* updated_at of a session earlier than it was.
C23_TimestampsMonotonic ==
    /\ [](\A sid \in DOMAIN chat_history.sessions :
              Instant(chat_history.sessions[sid].created_at)
                  <= Instant(chat_history.sessions[sid].updated_at))
    /\ [][\A sid \in DOMAIN chat_history.sessions \cap DOMAIN chat_history'.sessions :
              Instant(chat_history.sessions[sid].updated_at)
                  <= Instant(chat_history'.sessions[sid].updated_at)]_vars

\* C23 witness: a session created at one reading of the clock has got a
\* message at a later one
C23_Witness ==
    \E sid \in DOMAIN chat_history.sessions :
        /\ Len(chat_history.sessions[sid].messages) = 1
        /\ Instant(chat_history.sessions[sid].created_at)
               < Instant(chat_history.sessions[sid].updated_at)

\* the store new is the copy the request r loaded with nothing but r's own
\* edit: every session of the copy other than r's target is in it unchanged,
\* and it holds no session the copy does not hold, but the one r creates
OwnEditOnly(r, new) ==
    /\ \A sid \in DOMAIN r.data.sessions \ {r.session_id} :
           sid \in DOMAIN new.sessions /\ new.sessions[sid] = r.data.sessions[sid]
    /\ Cardinality(DOMAIN new.sessions \ DOMAIN r.data.sessions)
           = (IF r.op = "create" THEN 1 ELSE 0)

\* C24: the Session Store's writes are whole-file overwrites with no lock and
\* no version - whatever other requests have written since a request loaded
\* the file, what the request saves is the copy it loaded with its own edit,
\* so the file after two overlapping requests is what the last writer wrote.
C24_LastWriterWins ==
    \A r \in BagToSet(inflight), t1 \in Times, t2 \in Times :
        LET e == EndRequest(State, r, t1, t2, TRUE, TRUE)
        IN e.saved => OwnEditOnly(r, e.s.chat_history)

\* C24 witness: two requests, both create_session, have overlapped and both
\* have finished (no clear_database ran); the file holds one session, the
\* other writer's being lost
C24_Witness ==
    /\ inflight = EmptyBag
    /\ next_request = 2
    /\ next_session = 2
    /\ ~session_file.exists
    /\ Cardinality(DOMAIN chat_history.sessions) = 1

\* C25: in every state of history.json that requests write, one after the
\* other or overlapping, active_session is null or the id of a session in the
\* sessions map.
C25_NoDanglingActive ==
    \/ chat_history.active_session = None
    \/ chat_history.active_session \in DOMAIN chat_history.sessions

\* C25 witness: a delete has removed the active session and saved (no
\* clear_database ran) while a get_session for that session, which loaded the
\* file before, is still in flight
C25_Witness ==
    /\ ~session_file.exists
    /\ chat_history.active_session = None
    /\ \E r \in BagToSet(inflight) :
           /\ r.op = "get"
           /\ r.data.active_session = r.session_id
           /\ r.session_id \notin DOMAIN chat_history.sessions

\* the registry and the slot's chunk list name the same documents, and every
\* record counts the chunks its document has in the list
RegistryAgrees(s) ==
    /\ {d.file_id : d \in Range(s.all_documents)}
           = {rec.file_id : rec \in Range(s.document_metadata)}
    /\ \A rec \in Range(s.document_metadata) :
           rec.chunks = Cardinality({i \in 1..Len(s.all_documents) :
                                         s.all_documents[i].file_id = rec.file_id})

\* C26: after every completed upload_document, remove_document,
\* clear_database or restore_session the registry and the slot agree.
C26_RegistryMatchesSlot ==
    /\ \A add_to_existing \in BOOLEAN :
           LET u == UploadDocument(State, add_to_existing, "none")
           IN u.status = 200 => RegistryAgrees(u.s)
    /\ \A file_id \in FileIds :
           LET r == RemoveDocument(State, file_id, "none")
           IN r.status = 200 => RegistryAgrees(r.s)
    /\ \A clear_history \in BOOLEAN : RegistryAgrees(ClearDatabase(State, clear_history).s)
    /\ LET r == RestoreSession(State, "none")
       IN r.result => RegistryAgrees(r.s)

\* C27: the QA chain is coherent with the slot - in every reachable state
\* qa_chain is null exactly when vector_store is null, and a QA chain that
\* exists retrieves from the index vector_store holds.
C27_QaChainCoherent ==
    /\ (qa_chain = None) <=> (vector_store = None)
    /\ qa_chain # None => qa_chain = vector_store

====
